---- MODULE Spec2Model ----
(***************************************************************************)
(* A model of transcribe.py: the timestamp formatter, the two segment      *)
(* serializers, the device selector and the batch driver that runs         *)
(* transcribe_file over the command-line paths.                            *)
(*                                                                         *)
(* Texts and file contents are sequences of one-character strings.  A      *)
(* Python float is a record [int, fbits]: the value int + sum of           *)
(* fbits[i] * 2^-i, holding at most 53 significant bits as an IEEE-754     *)
(* double does.                                                            *)
(***************************************************************************)
EXTENDS Integers, Sequences, FiniteSets, TLC

\* ------------------------------------------------------------- bounds
MaxFiles == 2
MaxSegs == 2

\* --------------------------------------------------- characters, digits
DigitChars == <<"0", "1", "2", "3", "4", "5", "6", "7", "8", "9">>

RECURSIVE IntToStr(_)
\* str(n) of a non-negative int: its decimal digits
IntToStr(n) ==
  IF n < 10 THEN <<DigitChars[n + 1]>>
  ELSE IntToStr(n \div 10) \o <<DigitChars[(n % 10) + 1]>>

RECURSIVE ZeroPad(_, _)
\* the format specs 02d and 03d: left-padded with zeros to at least `width`
ZeroPad(s, width) ==
  IF Len(s) >= width THEN s ELSE ZeroPad(<<"0">> \o s, width)

\* the characters str.strip() removes, among those the model's texts use
Whitespace == {" ", "\n"}

RECURSIVE LStrip(_)
LStrip(s) ==
  IF s # <<>> /\ Head(s) \in Whitespace THEN LStrip(Tail(s)) ELSE s

RECURSIVE RStrip(_)
RStrip(s) ==
  IF s # <<>> /\ s[Len(s)] \in Whitespace
  THEN RStrip(SubSeq(s, 1, Len(s) - 1))
  ELSE s

\* str.strip()
Strip(s) == RStrip(LStrip(s))

\* ------------------------------------------------ double arithmetic
\* the number of binary digits of a non-negative int below 2^30
BitLen(n) == CHOOSE k \in 0..30 : n < 2^k /\ (k = 0 \/ n >= 2^(k - 1))

\* the binary digits of such an int, most significant first (0: none)
ToBits(n) == [i \in 1..BitLen(n) |-> (n \div 2^(BitLen(n) - i)) % 2]

RECURSIVE FromBits(_)
FromBits(b) ==
  IF b = <<>> THEN 0 ELSE 2 * FromBits(SubSeq(b, 1, Len(b) - 1)) + b[Len(b)]

\* ten binary digits of an int below 1024
Limb(v) == [i \in 1..10 |-> (v \div 2^(10 - i)) % 2]

\* the bit string plus one unit in its last place, and the carry out
IncBits(b) ==
  IF \A i \in 1..Len(b) : b[i] = 1
  THEN [bits |-> [i \in 1..Len(b) |-> 0], carry |-> 1]
  ELSE LET p == CHOOSE i \in 1..Len(b) :
                  b[i] = 0 /\ \A j \in (i + 1)..Len(b) : b[j] = 1
       IN [bits |-> [i \in 1..Len(b) |->
                       IF i < p THEN b[i] ELSE IF i = p THEN 1 ELSE 0],
           carry |-> 0]

\* the position of the first 1 of a bit string (Len + 1: none)
FirstOne(b) ==
  IF \E i \in 1..Len(b) : b[i] = 1
  THEN CHOOSE i \in 1..Len(b) : b[i] = 1 /\ \A j \in 1..(i - 1) : b[j] = 0
  ELSE Len(b) + 1

\* The value x.int + 0.x.fbits (plus, with `more`, something below one unit
\* of the last bit) rounded to the nearest double: 53 significant bits, ties
\* to even.
RoundDouble(x, more) ==
  LET ib == ToBits(x.int)
      s == ib \o x.fbits
      keep == FirstOne(s) + 52
  IN IF Len(s) <= keep THEN x
     ELSE LET rest == more \/ \E j \in (keep + 2)..Len(s) : s[j] = 1
              up == s[keep + 1] = 1 /\ (s[keep] = 1 \/ rest)
              kept == SubSeq(s, 1, keep)
              r == IF up THEN IncBits(kept) ELSE [bits |-> kept, carry |-> 0]
              all == IF r.carry = 1 THEN <<1>> \o r.bits ELSE r.bits
              ni == Len(ib) + r.carry
          IN [int |-> FromBits(SubSeq(all, 1, ni)),
              fbits |-> SubSeq(all, ni + 1, Len(all))]

RECURSIVE Expand(_, _)
\* The binary expansion of st.r/den (st.r < den), ten bits a step for
\* st.left steps; r is then what the cut leaves.
Expand(st, den) ==
  IF st.left = 0 THEN st
  ELSE Expand([r |-> (st.r * 1024) % den,
               bits |-> st.bits \o Limb((st.r * 1024) \div den),
               left |-> st.left - 1], den)

\* The double a decimal literal whole.frac denotes, frac counted in units of
\* 1/den (den at most 10000, so that 70 bits hold the 53 significant ones and
\* the rounding bit): the nearest double, ties to even.
ToDouble(whole, frac, den) ==
  LET e == Expand([r |-> frac, bits |-> <<>>, left |-> 7], den)
  IN RoundDouble([int |-> whole, fbits |-> e.bits], e.r # 0)

RECURSIVE MulLimbs(_, _)
\* The exact product of 0.bits and the int k (k below 2^20), ten bits a step
\* from the last bit up: st.todo are the bits still to multiply, st.int the
\* carry, st.fbits the product's bits so far.
MulLimbs(st, k) ==
  IF st.todo = <<>> THEN [int |-> st.int, fbits |-> st.fbits]
  ELSE LET n == Len(st.todo)
           t == FromBits(SubSeq(st.todo, n - 9, n)) * k + st.int
       IN MulLimbs([todo |-> SubSeq(st.todo, 1, n - 10), int |-> t \div 1024,
                    fbits |-> Limb(t % 1024) \o st.fbits], k)

\* a bit string filled with zeros to a multiple of ten bits
PadToLimbs(b) == b \o [i \in 1..((10 - (Len(b) % 10)) % 10) |-> 0]

\* x // n of a float x >= 0 and an int n > 0: exact, a whole number
FloorDiv(x, n) == [int |-> x.int \div n, fbits |-> <<>>]

\* x % n of a float x >= 0 and an int n > 0: fmod, exact
Mod(x, n) == [int |-> x.int % n, fbits |-> x.fbits]

\* x * k of a float x >= 0 and an int k: the exact product, rounded
Mul(x, k) ==
  LET p == MulLimbs([todo |-> PadToLimbs(x.fbits), int |-> 0, fbits |-> <<>>], k)
  IN RoundDouble([int |-> x.int * k + p.int, fbits |-> p.fbits], FALSE)

\* int(x) of a float x >= 0: truncation
Trunc(x) == x.int

\* ---------------------------------------------------- format_timestamp
format_timestamp(seconds) ==
  LET hours == Trunc(FloorDiv(seconds, 3600))
      minutes == Trunc(FloorDiv(Mod(seconds, 3600), 60))
      secs == Trunc(Mod(seconds, 60))
      millisecs == Trunc(Mul(Mod(seconds, 1), 1000))
  IN ZeroPad(IntToStr(hours), 2) \o <<":">> \o ZeroPad(IntToStr(minutes), 2)
       \o <<":">> \o ZeroPad(IntToStr(secs), 2) \o <<",">>
       \o ZeroPad(IntToStr(millisecs), 3)

\* A time value as the decimal literal whole.frac, frac in units of 1/10000;
\* Float is the double the program receives for it.
Float(lit) == ToDouble(lit.whole, lit.frac, 10000)

\* ----------------------------------------------------------- serializers
NL == <<"\n">>

Arrow == <<" ", "-", "-", ">", " ">>

\* a variant that skips a segment without text, as generate_markdown does
SrtBlockSkipEmpty(i, segment) ==
  IF Strip(segment.text) = <<>> THEN <<>>
  ELSE IntToStr(i) \o NL
         \o format_timestamp(Float(segment.start)) \o Arrow
         \o format_timestamp(Float(segment.end)) \o NL
         \o Strip(segment.text) \o NL \o NL

\* what one iteration of generate_srt's loop writes
SrtBlock(i, segment) ==
  LET start_time == format_timestamp(Float(segment.start))
      end_time == format_timestamp(Float(segment.end))
      text == Strip(segment.text)
  IN IntToStr(i) \o NL
       \o start_time \o Arrow \o end_time \o NL
       \o text \o NL \o NL

RECURSIVE SrtWrites(_, _)
\* the file after the first n iterations of enumerate(segments, 1)
SrtWrites(segments, n) ==
  IF n = 0 THEN <<>>
  ELSE SrtWrites(segments, n - 1) \o SrtBlock(n, segments[n])

generate_srt(segments) == SrtWrites(segments, Len(segments))

\* the fixed label of the markdown title, between "# " and the file name
TitleLabel == <<"T", ":">>

\* a variant without the test for an empty text
MdParagraphKeepEmpty(segment) == Strip(segment.text) \o NL \o NL

\* what one iteration of generate_markdown's loop writes
MdParagraph(segment) ==
  LET text == Strip(segment.text)
  IN IF text # <<>> THEN text \o NL \o NL ELSE <<>>

RECURSIVE MdWrites(_, _)
MdWrites(segments, n) ==
  IF n = 0 THEN <<>>
  ELSE MdWrites(segments, n - 1) \o MdParagraph(segments[n])

generate_markdown(segments, filename) ==
  <<"#", " ">> \o TitleLabel \o filename \o NL \o NL
    \o <<"-", "-", "-">> \o NL \o NL
    \o MdWrites(segments, Len(segments))

\* ---------------------------------------------------------- check_gpu
\* What the torch backend does when probed: each step's outcome, "notrun"
\* for a step an earlier outcome keeps from running.
TorchBehaviours ==
  { [import |-> "ImportError", available |-> "notrun", name |-> "notrun",
     smoke |-> "notrun"],
    [import |-> "ok", available |-> "raises", name |-> "notrun",
     smoke |-> "notrun"],
    [import |-> "ok", available |-> "false", name |-> "notrun",
     smoke |-> "notrun"],
    [import |-> "ok", available |-> "true", name |-> "raises",
     smoke |-> "notrun"],
    [import |-> "ok", available |-> "true", name |-> "ok",
     smoke |-> "raises"],
    [import |-> "ok", available |-> "true", name |-> "ok", smoke |-> "ok"] }

\* a variant without the smoke computation
check_gpu_no_smoke(torch) ==
  IF torch.import = "ImportError" THEN "cpu"
  ELSE IF torch.available = "raises" THEN "raise"
  ELSE IF torch.available = "true"
       THEN IF torch.name = "raises" THEN "raise" ELSE "cuda"
       ELSE "cpu"

\* check_gpu's result: the device it returns, or "raise" for an exception
\* that leaves it
check_gpu(torch) ==
  IF torch.import = "ImportError" THEN "cpu"
  ELSE IF torch.available = "raises" THEN "raise"
  ELSE IF torch.available = "true"
       THEN IF torch.name = "raises" THEN "raise"
            ELSE IF torch.smoke = "raises" THEN "cpu"
            ELSE "cuda"
       ELSE "cpu"

\* ------------------------------------------------------------- inputs
Lit(w, f) == [whole |-> w, frac |-> f]

Seg(s, e, t) == [start |-> s, end |-> e, text |-> t]

\* the command-line paths, all in one directory: stem and suffix
Paths ==
  { [stem |-> <<"a">>, suffix |-> <<".", "m">>],
    [stem |-> <<"b">>, suffix |-> <<".", "w">>] }

\* Path.name
Name(path) == path.stem \o path.suffix

TranscriptTag == <<"_", "t", "r", "a", "n", "s", "c", "r", "i", "p", "t">>

\* output_dir / f"{base_name}_transcript.srt"
srt_path(file_path) ==
  [stem |-> file_path.stem \o TranscriptTag, suffix |-> <<".", "s", "r", "t">>]

\* output_dir / f"{base_name}_transcript.md"
md_path(file_path) ==
  [stem |-> file_path.stem \o TranscriptTag, suffix |-> <<".", "m", "d">>]

OutPaths == {srt_path(p) : p \in Paths} \cup {md_path(p) : p \in Paths}

\* the sequences over S of length at most n
SeqsUpTo(S, n) == UNION {[1..k -> S] : k \in 0..n}

\* what model.transcribe returns in the batch runs: result['segments']
EngineResults ==
  { <<>>,
    <<Seg(Lit(0, 0), Lit(1, 5000), <<" ", "a">>),
      Seg(Lit(1, 5000), Lit(3, 0), <<" ">>)>>,
    <<Seg(Lit(3661, 2340), Lit(3662, 0), <<"b", "\n">>)>> }

NoResult == [set |-> FALSE, segments |-> <<>>]

Absent == <<"absent">>

Pending == <<"pending">>

NoCall == [fn |-> "none"]

NotReturned == [stamp |-> Pending, srt |-> Pending, md |-> Pending]

\* ------------------------------------------------------------- state
VARIABLES
  files,          \* args.files
  present,        \* the paths that exist
  ffmpeg,         \* whether shutil.which finds ffmpeg
  fs,             \* the output files: path -> content, or Absent
  pc,             \* where main and transcribe_file stand
  idx,            \* the position of the for loop in args.files
  success_count,
  device,         \* transcribe_file's local
  model,          \* transcribe_file's local
  result,         \* transcribe_file's local: result['segments']
  ret,            \* transcribe_file's return value
  torch,          \* what the backend did at the last probe
  stages,         \* the stages the current call of transcribe_file has run
  attempts,       \* the language hints the current call has tried
  outcomes,       \* the finished calls: the file and the return value
  raised,         \* the stage an exception left main from
  hist,           \* the successful calls: file, segments, the files written
  reported,       \* the summary line: <<success_count, total_files>>
  call,           \* a direct call of a pure function: its arguments
  returned        \* and its result

env == <<files, present, ffmpeg>>

locals == <<device, model, result, ret, torch>>

ghost == <<stages, attempts, outcomes, raised, hist, reported>>

pure == <<call, returned>>

vars == <<files, present, ffmpeg, fs, pc, idx, success_count, device, model,
          result, ret, torch, stages, attempts, outcomes, raised, hist,
          reported, call, returned>>

NoTorch == [import |-> "notrun", available |-> "notrun", name |-> "notrun",
            smoke |-> "notrun"]

DriverStart ==
  /\ fs = [p \in OutPaths |-> Absent]
  /\ pc = "main"
  /\ idx = 0
  /\ success_count = 0
  /\ device = "none"
  /\ model = "none"
  /\ result = NoResult
  /\ ret = FALSE
  /\ torch = NoTorch
  /\ stages = <<>>
  /\ attempts = <<>>
  /\ outcomes = <<>>
  /\ raised = "none"
  /\ hist = <<>>
  /\ reported = <<>>

Init ==
  /\ files \in SeqsUpTo(Paths, MaxFiles)
  /\ present \in SUBSET Paths
  /\ ffmpeg \in BOOLEAN
  /\ DriverStart
  /\ call = NoCall
  /\ returned = NotReturned

\* ------------------------------------------------------------- main
\* len(sys.argv) == 1: the usage text, and main returns
Usage ==
  /\ pc = "main"
  /\ Len(files) = 0
  /\ pc' = "exit"
  /\ UNCHANGED <<env, fs, idx, success_count, locals, ghost, pure>>

\* the arguments parse: success_count = 0, and the loop starts
ParseArgs ==
  /\ pc = "main"
  /\ Len(files) > 0
  /\ success_count' = 0
  /\ idx' = 1
  /\ pc' = "loop"
  /\ UNCHANGED <<env, fs, locals, ghost, pure>>

\* the loop takes the next path and calls transcribe_file on it
CallTranscribe ==
  /\ pc = "loop"
  /\ idx <= Len(files)
  /\ pc' = "exists"
  /\ device' = "none"
  /\ model' = "none"
  /\ result' = NoResult
  /\ ret' = FALSE
  /\ torch' = NoTorch
  /\ stages' = <<>>
  /\ attempts' = <<>>
  /\ UNCHANGED <<env, fs, idx, success_count, outcomes, raised, hist,
                 reported, pure>>

\* where transcribe_file goes on from a stage that succeeded or failed
AfterExists(found) == IF found THEN "deps" ELSE "ret"

AfterDependencies(found) == IF found THEN "gpu" ELSE "ret"

\* a variant that goes on to transcribe without a model
AfterLoadAnyway(loaded) == "primary"

AfterLoad(loaded) == IF loaded THEN "primary" ELSE "ret"

AfterPrimary(raises) == IF raises THEN "fallback" ELSE "srt"

\* a variant that tries again after the fallback raised
AfterFallbackRetry(raises) == IF raises THEN "fallback" ELSE "srt"

AfterFallback(raises) == IF raises THEN "ret" ELSE "srt"

\* file_path.exists()
CheckExists ==
  /\ pc = "exists"
  /\ stages' = Append(stages, "exists")
  /\ pc' = AfterExists(files[idx] \in present)
  /\ ret' = FALSE
  /\ UNCHANGED <<env, fs, idx, success_count, device, model, result, torch,
                 attempts, outcomes, raised, hist, reported, pure>>

\* check_dependencies()
CheckDependencies ==
  /\ pc = "deps"
  /\ stages' = Append(stages, "decoder")
  /\ pc' = AfterDependencies(ffmpeg)
  /\ ret' = FALSE
  /\ UNCHANGED <<env, fs, idx, success_count, device, model, result, torch,
                 attempts, outcomes, raised, hist, reported, pure>>

\* device = check_gpu(): no handler in transcribe_file or main around it
CheckGpu ==
  /\ pc = "gpu"
  /\ stages' = Append(stages, "device")
  /\ \E t \in TorchBehaviours :
       /\ torch' = t
       /\ IF check_gpu(t) = "raise"
          THEN /\ pc' = "crashed"
               /\ raised' = "device"
               /\ device' = device
          ELSE /\ pc' = "load"
               /\ raised' = raised
               /\ device' = check_gpu(t)
  /\ UNCHANGED <<env, fs, idx, success_count, model, result, ret, attempts,
                 outcomes, hist, reported, pure>>

\* whisper.load_model("large", device=device), in its try
LoadModel ==
  /\ pc = "load"
  /\ stages' = Append(stages, "load")
  /\ \E loaded \in BOOLEAN :
       /\ model' = IF loaded THEN device ELSE model
       /\ pc' = AfterLoad(loaded)
  /\ ret' = FALSE
  /\ UNCHANGED <<env, fs, idx, success_count, device, result, torch,
                 attempts, outcomes, raised, hist, reported, pure>>

\* model.transcribe(..., language="yue", ...), in the inner try
TranscribePrimary ==
  /\ pc = "primary"
  /\ stages' = Append(stages, "transcribe")
  /\ attempts' = Append(attempts, "yue")
  /\ \/ /\ pc' = AfterPrimary(TRUE)
        /\ result' = result
     \/ \E segments \in EngineResults :
          /\ pc' = AfterPrimary(FALSE)
          /\ result' = [set |-> TRUE, segments |-> segments]
  /\ UNCHANGED <<env, fs, idx, success_count, device, model, ret, torch,
                 outcomes, raised, hist, reported, pure>>

\* model.transcribe(..., language=None, ...), in the inner handler; the outer
\* handler returns False
TranscribeFallback ==
  /\ pc = "fallback"
  /\ attempts' = Append(attempts, "auto")
  /\ \/ /\ pc' = AfterFallback(TRUE)
        /\ result' = result
     \/ \E segments \in EngineResults :
          /\ pc' = AfterFallback(FALSE)
          /\ result' = [set |-> TRUE, segments |-> segments]
  /\ ret' = FALSE
  /\ UNCHANGED <<env, fs, idx, success_count, device, model, torch, stages,
                 outcomes, raised, hist, reported, pure>>

\* a variant that opens the file to append
WriteFileAppend(files_now, path, content) ==
  [files_now EXCEPT ![path] = IF @ = Absent THEN content ELSE @ \o content]

\* open(path, 'w') and the writes that follow: the file holds what this
\* call writes, whatever it held
WriteFile(files_now, path, content) == [files_now EXCEPT ![path] = content]

\* generate_srt(result['segments'], srt_path); open may raise, and nothing
\* catches it
WriteSrt ==
  /\ pc = "srt"
  /\ stages' = Append(stages, "srt")
  /\ \/ /\ fs' = WriteFile(fs, srt_path(files[idx]),
                            generate_srt(result.segments))
        /\ pc' = "md"
        /\ raised' = raised
     \/ /\ fs' = fs
        /\ pc' = "crashed"
        /\ raised' = "srt"
  /\ UNCHANGED <<env, idx, success_count, locals, attempts, outcomes, hist,
                 reported, pure>>

\* generate_markdown(result['segments'], md_path, file_path.name), then
\* return True
WriteMd ==
  /\ pc = "md"
  /\ stages' = Append(stages, "md")
  /\ \/ /\ fs' = WriteFile(fs, md_path(files[idx]),
                            generate_markdown(result.segments, Name(files[idx])))
        /\ pc' = "ret"
        /\ ret' = TRUE
        /\ raised' = raised
        /\ hist' = Append(hist, [file |-> files[idx],
                                  segments |-> result.segments,
                                  srt |-> fs'[srt_path(files[idx])],
                                  md |-> fs'[md_path(files[idx])]])
     \/ /\ fs' = fs
        /\ pc' = "crashed"
        /\ ret' = ret
        /\ raised' = "md"
        /\ hist' = hist
  /\ UNCHANGED <<env, idx, success_count, device, model, result, torch,
                 attempts, outcomes, reported, pure>>

\* a variant that counts every call
CountedAlways(count, ok) == count + 1

\* if transcribe_file(file_path): success_count += 1
Counted(count, ok) == IF ok THEN count + 1 ELSE count

\* transcribe_file returns; the loop counts it and moves on
Return ==
  /\ pc = "ret"
  /\ success_count' = Counted(success_count, ret)
  /\ outcomes' = Append(outcomes, [file |-> files[idx], ok |-> ret])
  /\ idx' = idx + 1
  /\ pc' = "loop"
  /\ UNCHANGED <<env, fs, locals, stages, attempts, raised, hist, reported,
                 pure>>

\* the loop is over: the summary line
Summary ==
  /\ pc = "loop"
  /\ idx > Len(files)
  /\ reported' = <<success_count, Len(files)>>
  /\ pc' = "exit"
  /\ UNCHANGED <<env, fs, idx, success_count, locals, stages, attempts,
                 outcomes, raised, hist, pure>>

Next ==
  \/ Usage
  \/ ParseArgs
  \/ CallTranscribe
  \/ CheckExists
  \/ CheckDependencies
  \/ CheckGpu
  \/ LoadModel
  \/ TranscribePrimary
  \/ TranscribeFallback
  \/ WriteSrt
  \/ WriteMd
  \/ Return
  \/ Summary

Spec == Init /\ [][Next]_vars

\* ------------------------------------------- the pure functions, called
\* the time values format_timestamp is called on
TimeLiterals ==
  {Lit(w, f) : w \in {0, 59, 3661, 360000},
               f \in {ms * 10 : ms \in 0..999} \cup {9995}}

\* the segments the serializers are called on; no text holds a line break
\* inside it
SegTexts ==
  {<<>>, <<" ">>, <<"a">>, <<" ", "a", "\n">>, <<"a", " ", "b">>}

SegSpans ==
  {<<Lit(0, 0), Lit(1, 5000)>>, <<Lit(1, 5000), Lit(3661, 2340)>>}

Segments == {Seg(sp[1], sp[2], t) : sp \in SegSpans, t \in SegTexts}

NoBatch ==
  /\ files = <<>>
  /\ present = {}
  /\ ffmpeg = FALSE
  /\ DriverStart

FmtInit ==
  /\ NoBatch
  /\ call \in {[fn |-> "format_timestamp", seconds |-> d] : d \in TimeLiterals}
  /\ returned = NotReturned

FormatTimestamp ==
  /\ call.fn = "format_timestamp"
  /\ returned.stamp = Pending
  /\ returned' = [returned EXCEPT !.stamp = format_timestamp(Float(call.seconds))]
  /\ UNCHANGED <<env, fs, pc, idx, success_count, locals, ghost, call>>

FmtNext == FormatTimestamp

FmtSpec == FmtInit /\ [][FmtNext]_vars

SerInit ==
  /\ NoBatch
  /\ call \in {[fn |-> "serialize", segments |-> ss, filename |-> Name(p)] :
                 ss \in SeqsUpTo(Segments, MaxSegs), p \in Paths}
  /\ returned = NotReturned

GenerateSrt ==
  /\ call.fn = "serialize"
  /\ returned.srt = Pending
  /\ returned' = [returned EXCEPT !.srt = generate_srt(call.segments)]
  /\ UNCHANGED <<env, fs, pc, idx, success_count, locals, ghost, call>>

GenerateMarkdown ==
  /\ call.fn = "serialize"
  /\ returned.md = Pending
  /\ returned' =
       [returned EXCEPT !.md = generate_markdown(call.segments, call.filename)]
  /\ UNCHANGED <<env, fs, pc, idx, success_count, locals, ghost, call>>

SerNext == GenerateSrt \/ GenerateMarkdown

SerSpec == SerInit /\ [][SerNext]_vars

\* ------------------------------------------------------------ claims
\* the elements of a sequence
Range(seq) == {seq[i] : i \in 1..Len(seq)}

\* whether seq starts as whole does
IsPrefix(seq, whole) ==
  Len(seq) <= Len(whole) /\ seq = SubSeq(whole, 1, Len(seq))

StageOrder ==
  <<"exists", "decoder", "device", "load", "transcribe", "srt", "md">>

\* the number of successful calls among the finished ones
Successes == Cardinality({k \in 1..Len(outcomes) : outcomes[k].ok})

\* the lines of a text whose every line ends with a line break
LineEnds(text) == {i \in 1..Len(text) : text[i] = "\n"}

LineEnd(text, k) ==
  IF k = 0 THEN 0
  ELSE CHOOSE i \in LineEnds(text) :
         Cardinality({j \in LineEnds(text) : j <= i}) = k

Lines(text) ==
  [k \in 1..Cardinality(LineEnds(text)) |->
     SubSeq(text, LineEnd(text, k - 1) + 1, LineEnd(text, k) - 1)]

WholeLines(text) == text = <<>> \/ text[Len(text)] = "\n"

\* t is text without its leading and trailing whitespace
IsTrimmed(t, text) ==
  /\ t = <<>> \/ (t[1] \notin Whitespace /\ t[Len(t)] \notin Whitespace)
  /\ \E i \in 1..(Len(text) + 1) :
       /\ i + Len(t) - 1 <= Len(text)
       /\ t = SubSeq(text, i, i + Len(t) - 1)
       /\ \A j \in 1..Len(text) :
            (j < i \/ j > i + Len(t) - 1) => text[j] \in Whitespace

\* what holds of the attempts of a call in every state
C1_Attempts ==
  /\ attempts \in {<<>>, <<"yue">>, <<"yue", "auto">>}
  /\ (attempts # <<>>) <=> ("transcribe" \in Range(stages))
  /\ pc = "fallback" => attempts = <<"yue">> /\ ~result.set
  /\ pc \in {"srt", "md"} => result.set
  /\ (pc = "ret" /\ attempts = <<"yue", "auto">> /\ ~result.set) =>
       /\ ~ret
       /\ "srt" \notin Range(stages)
       /\ "md" \notin Range(stages)

\* and of every step
C1_Step ==
  /\ (pc = "load" /\ model' # "none") => pc' = "primary"
  /\ pc = "primary" =>
       /\ attempts = <<>>
       /\ attempts' = <<"yue">>
       /\ IF result'.set THEN pc' = "srt" ELSE pc' = "fallback"
  /\ pc' = "fallback" => pc = "primary"
  /\ pc = "fallback" =>
       /\ attempts' = <<"yue", "auto">>
       /\ IF result'.set THEN pc' = "srt"
          ELSE pc' = "ret" /\ ~ret' /\ fs' = fs
  /\ (attempts' # attempts /\ pc \notin {"primary", "fallback"}) =>
       pc = "loop" /\ attempts' = <<>>
  /\ fs' # fs => result.set /\ pc \in {"srt", "md"}

\* C1: for a call whose model loaded, the "yue" attempt is made exactly once
\* and first; the auto-detect attempt is made once, and only after the "yue"
\* attempt raised; there is no third attempt; when both raise the call
\* returns False and writes neither output file.
C1_FallbackOnce == []C1_Attempts /\ [][C1_Step]_vars

\* both attempts raised: the call is about to return False
C1_BothRaised ==
  pc = "ret" /\ attempts = <<"yue", "auto">> /\ ~result.set /\ ~ret

\* C2: a failure at any stage of a file is recorded as Failed for that file
\* and the batch goes on: no exception leaves the per-file boundary.
C2_NoFailureEscapes == raised = "none" /\ pc # "crashed"

\* C3: the paths are processed once each, in the given order; success_count
\* is the number of calls that returned True and lies in 0..N; the summary
\* reports success_count/N after every path was processed, so (N-1)/N when
\* one path is missing and the others succeed.
C3_Count ==
  /\ success_count = Successes
  /\ 0 <= success_count /\ success_count <= Len(files)
  /\ Len(outcomes) <= Len(files)
  /\ \A k \in 1..Len(outcomes) :
       /\ outcomes[k].file = files[k]
       /\ files[k] \notin present => ~outcomes[k].ok
  /\ pc \in {"loop", "exit"} /\ Len(files) > 0 => Len(outcomes) = idx - 1
  /\ reported # <<>> =>
       /\ Len(outcomes) = Len(files)
       /\ reported = <<Successes, Len(files)>>
       /\ (/\ Cardinality({k \in 1..Len(files) : files[k] \notin present}) = 1
           /\ \A k \in 1..Len(files) : files[k] \in present => outcomes[k].ok)
          => reported = <<Len(files) - 1, Len(files)>>

\* a batch of two whose first path is missing: the second was processed and
\* succeeded, and the summary says 1/2
C3_OneMissing ==
  /\ Len(files) = 2
  /\ files[1] \notin present
  /\ reported = <<1, 2>>

\* C4: check_gpu never raises: once the probe has run, the device is one of
\* accelerated and baseline.
C4_ProbeReturns ==
  "device" \in Range(stages) => device \in {"cuda", "cpu"} /\ raised # "device"

\* C5: check_gpu returns "cuda" exactly when the backend reports available
\* and the smoke computation completes; available with a smoke computation
\* that raises, and unavailable, give "cpu".
C5_Device ==
  ("device" \in Range(stages) /\ raised # "device") =>
    /\ device = "cuda" <=> (torch.available = "true" /\ torch.smoke = "ok")
    /\ device \in {"cuda", "cpu"}
    /\ (torch.available = "true" /\ torch.smoke = "raises") => device = "cpu"
    /\ torch.available = "false" => device = "cpu"

\* the backend reported available and the smoke computation raised
C5_SmokeRaised ==
  /\ "device" \in Range(stages)
  /\ torch.available = "true"
  /\ torch.smoke = "raises"
  /\ device = "cpu"

\* C6: generate_srt writes one block per segment, in order: the index from
\* 1, the time range of the segment's formatted start and end, the trimmed
\* text (an empty line when it is empty), a blank line; nothing for no
\* segment.
C6_SrtBlocks ==
  returned.srt # Pending =>
    LET n == Len(call.segments)
        lines == Lines(returned.srt)
    IN /\ WholeLines(returned.srt)
       /\ Len(lines) = 4 * n
       /\ n = 0 => returned.srt = <<>>
       /\ \A k \in 1..n :
            /\ lines[4 * k - 3] = IntToStr(k)
            /\ lines[4 * k - 2] =
                 format_timestamp(Float(call.segments[k].start)) \o Arrow
                   \o format_timestamp(Float(call.segments[k].end))
            /\ IsTrimmed(lines[4 * k - 1], call.segments[k].text)
            /\ lines[4 * k] = <<>>

\* two segments went in, the second with nothing but whitespace
C6_EmptyTextKept ==
  /\ returned.srt # Pending
  /\ Len(call.segments) = 2
  /\ call.segments[1].text = <<" ", "a", "\n">>
  /\ call.segments[2].text = <<" ">>

\* the segments whose trimmed text is not empty
Spoken(segments) ==
  LET NotEmpty(sg) == \E i \in 1..Len(sg.text) : sg.text[i] \notin Whitespace
  IN SelectSeq(segments, NotEmpty)

\* C7: generate_markdown writes the title line with the file name, the
\* separator, then one paragraph per segment whose trimmed text is not
\* empty, in order; the other segments add nothing, so no two blank lines
\* follow each other.
C7_MdParagraphs ==
  returned.md # Pending =>
    LET kept == Spoken(call.segments)
        lines == Lines(returned.md)
    IN /\ WholeLines(returned.md)
       /\ Len(lines) = 4 + 2 * Len(kept)
       /\ lines[1] = <<"#", " ">> \o TitleLabel \o call.filename
       /\ lines[2] = <<>>
       /\ lines[3] = <<"-", "-", "-">>
       /\ lines[4] = <<>>
       /\ \A k \in 1..Len(kept) :
            /\ IsTrimmed(lines[3 + 2 * k], kept[k].text)
            /\ lines[3 + 2 * k] # <<>>
            /\ lines[4 + 2 * k] = <<>>
       /\ \A i \in 1..(Len(lines) - 1) : lines[i] # <<>> \/ lines[i + 1] # <<>>

\* a whitespace-only segment before a spoken one
C7_EmptySkipped ==
  /\ returned.md # Pending
  /\ Len(call.segments) = 2
  /\ call.segments[1].text = <<" ">>
  /\ call.segments[2].text = <<"a", " ", "b">>

\* the stamp of the decimal time whole.frac by the stated arithmetic on it
DecimalStamp(lit) ==
  ZeroPad(IntToStr(lit.whole \div 3600), 2) \o <<":">>
    \o ZeroPad(IntToStr((lit.whole % 3600) \div 60), 2) \o <<":">>
    \o ZeroPad(IntToStr(lit.whole % 60), 2) \o <<",">>
    \o ZeroPad(IntToStr((lit.frac * 1000) \div 10000), 3)

\* C8: format_timestamp(seconds) is HH:MM:SS,mmm with hours = floor(seconds
\* / 3600), minutes = floor((seconds mod 3600) / 60), secs = floor(seconds
\* mod 60) and millis = floor((seconds mod 1) * 1000), truncated; so 0 gives
\* 00:00:00,000, 3661.234 gives 01:01:01,234 and 59.9995 gives 00:00:59,999.
C8_Stamp ==
  returned.stamp # Pending =>
    /\ returned.stamp = DecimalStamp(call.seconds)
    /\ call.seconds = Lit(0, 0) =>
         returned.stamp =
           <<"0", "0", ":", "0", "0", ":", "0", "0", ",", "0", "0", "0">>
    /\ call.seconds = Lit(3661, 2340) =>
         returned.stamp =
           <<"0", "1", ":", "0", "1", ":", "0", "1", ",", "2", "3", "4">>
    /\ call.seconds = Lit(59, 9995) =>
         returned.stamp =
           <<"0", "0", ":", "0", "0", ":", "5", "9", ",", "9", "9", "9">>

\* C9: a file processed again with the same engine output is written to the
\* same two paths, and each holds after the second call exactly what it held
\* after the first.
C9_Idempotent ==
  /\ \A i \in 1..Len(hist) : \A j \in 1..Len(hist) :
       (hist[i].file = hist[j].file /\ hist[i].segments = hist[j].segments)
         => (hist[i].srt = hist[j].srt /\ hist[i].md = hist[j].md)
  /\ (pc = "ret" /\ ret) =>
       /\ hist # <<>>
       /\ hist[Len(hist)].file = files[idx]
       /\ fs[srt_path(files[idx])] = hist[Len(hist)].srt
       /\ fs[md_path(files[idx])] = hist[Len(hist)].md
       /\ fs[srt_path(files[idx])] # Absent
       /\ fs[md_path(files[idx])] # Absent

\* the same file, processed twice with the same segments
C9_SecondRun ==
  /\ Len(hist) = 2
  /\ hist[1].file = hist[2].file
  /\ hist[1].segments = hist[2].segments
  /\ hist[1].segments # <<>>

\* C10: the stages of a file run in the order existence check, decoder
\* check, device selection, model load, transcription, .srt write, .md
\* write, each at most once and only after the earlier ones succeeded; the
\* device is probed and the model loaded anew for each file; a file's stages
\* start only when every earlier file has its outcome.
C10_Stages ==
  LET called == IF pc \in {"loop", "exit"} THEN idx - 1 ELSE idx
  IN /\ IsPrefix(stages, StageOrder)
     /\ pc # "main" /\ Len(files) > 0 => Len(outcomes) = idx - 1
     /\ stages # <<>> => called \in 1..Len(files)
     /\ "decoder" \in Range(stages) => files[called] \in present
     /\ "device" \in Range(stages) => ffmpeg /\ torch # NoTorch
     /\ "load" \in Range(stages) => device \in {"cuda", "cpu"}
     /\ "transcribe" \in Range(stages) => model # "none" /\ model = device
     /\ "srt" \in Range(stages) => result.set
     /\ pc = "load" => stages = SubSeq(StageOrder, 1, 3)
     /\ pc = "primary" => stages = SubSeq(StageOrder, 1, 4)
     /\ (pc = "ret" /\ ret) => stages = StageOrder

\* the second file of a batch ran every stage after the first had failed
C10_SecondFile ==
  /\ idx = 2
  /\ Len(outcomes) = 1
  /\ ~outcomes[1].ok
  /\ stages = StageOrder

====
